---- MODULE Spec2Model ----
(***************************************************************************)
(* Model of ImageProcessor (image_processor.py): the four optional fields  *)
(* of the processor, its operations, the connected-component filter and    *)
(* the greedy nearest-neighbour path builder.                              *)
(*                                                                         *)
(* An array is a record [h, w, px]: px maps <<row, col>> (0-based) to the   *)
(* pixel value.  A colour pixel is one integer code; a mask pixel is 0 or   *)
(* 255.  None is the Python None.                                           *)
(***************************************************************************)
EXTENDS FiniteSets, Integers, Sequences, TLC

\* ---- bounds ----
MaxH == 1           \* rows of the image files of Spec
MaxW == 1           \* columns of the image files of Spec
MaskH == 2          \* rows of the largest mask of the mask specifications
MaskW == 3          \* columns of the largest mask of the mask specifications
RegionH == 2        \* rows of the largest mask of SpecRegion
RegionW == 2        \* columns of the largest mask of SpecRegion
MaxMinSize == 5     \* largest min_size passed to remove_small_edges
MaxEdgePixels == 1  \* most foreground cells of a Canny result in Spec

\* ---- program constants ----
ON == 255
PySet_MINSIZE == 8
LINEAR_PROBES == 9
PERTURB_SHIFT == 5

\* Python None, where an array is expected
None == [h |-> -1, w |-> -1, px |-> [p \in {} |-> 0]]

VARIABLES original_image, current_image, edges, line_drawing, ret

vars == <<original_image, current_image, edges, line_drawing, ret>>

Min2(a, b) == IF a < b THEN a ELSE b
Max2(a, b) == IF a > b THEN a ELSE b

\* ---- arrays ----
Cells(h, w) == (0 .. h - 1) \X (0 .. w - 1)

\* np.zeros_like(a)
ZerosLike(a) == [h |-> a.h, w |-> a.w, px |-> [p \in Cells(a.h, a.w) |-> 0]]

\* where a slice bound i falls on an axis of length n: a negative bound
\* counts from the end, and either kind is clipped to 0 .. n
SliceBound(i, n) == IF i < 0 THEN Max2(i + n, 0) ELSE Min2(i, n)

\* the length of the slice start:stop of an axis of length n
SliceLen(start, stop, n) == Max2(0, SliceBound(stop, n) - SliceBound(start, n))

\* a[y1:y2, x1:x2]
Slice(a, y1, y2, x1, x2) ==
    LET r0 == SliceBound(y1, a.h)
        c0 == SliceBound(x1, a.w)
        nh == SliceLen(y1, y2, a.h)
        nw == SliceLen(x1, x2, a.w)
    IN [h |-> nh, w |-> nw,
        px |-> [p \in Cells(nh, nw) |-> a.px[<<p[1] + r0, p[2] + c0>>]]]

\* a[y1:y2, x1:x2] = 0 (in place)
SliceAssignZero(a, y1, y2, x1, x2) ==
    [a EXCEPT !.px = [p \in Cells(a.h, a.w) |->
        IF /\ SliceBound(y1, a.h) <= p[1] /\ p[1] < SliceBound(y2, a.h)
           /\ SliceBound(x1, a.w) <= p[2] /\ p[2] < SliceBound(x2, a.w)
        THEN 0 ELSE a.px[p]]]

\* row-major position of a cell
ScanIndex(a, p) == p[1] * a.w + p[2]

OnCells(a) == {p \in Cells(a.h, a.w) : a.px[p] > 0}

\* ---- cv2.connectedComponentsWithStats(mask, connectivity=8) ----
\* 8-connectivity: the cells differ by at most 1 in row and in column
Adjacent8(p, q) ==
    /\ p # q
    /\ p[1] - q[1] \in {-1, 0, 1}
    /\ p[2] - q[2] \in {-1, 0, 1}

\* flood fill: the foreground cells reached from the cells of `seen`
RECURSIVE FloodFill(_, _)
FloodFill(a, seen) ==
    LET more == {q \in OnCells(a) \ seen : \E p \in seen : Adjacent8(p, q)}
    IN IF more = {} THEN seen ELSE FloodFill(a, seen \cup more)

\* the foreground cell of `cells` that comes first in the raster scan
FirstInScan(a, cells) ==
    CHOOSE p \in cells : \A q \in cells : ScanIndex(a, p) <= ScanIndex(a, q)

\* the components as a sequence: label i is the i-th component met by the
\* raster scan (label 0, the background, is not in the sequence)
RECURSIVE LabelComponents(_, _, _)
LabelComponents(a, todo, comps) ==
    IF todo = {} THEN comps
    ELSE LET c == FloodFill(a, {FirstInScan(a, todo)})
         IN LabelComponents(a, todo \ c, Append(comps, c))

ConnectedComponentsWithStats(a) ==
    LET comps == LabelComponents(a, OnCells(a), <<>>)
        bg == Cells(a.h, a.w) \ OnCells(a)
    IN [num_labels |-> Len(comps) + 1,
        labels |-> [p \in Cells(a.h, a.w) |->
            IF p \in bg THEN 0
            ELSE CHOOSE i \in 1 .. Len(comps) : p \in comps[i]],
        area |-> [i \in 0 .. Len(comps) |->
            IF i = 0 THEN Cardinality(bg) ELSE Cardinality(comps[i])]]

\* ---- remove_small_edges: the loop over the labels ----
FilterLabelsWithBackground(num_labels) == 0 .. num_labels - 1

\* range(1, num_labels): label 0, the background, is skipped
FilterLabels(num_labels) == 1 .. num_labels - 1

KeepAreaStrict(area, min_size) == area > min_size

\* if area >= min_size
KeepArea(area, min_size) == area >= min_size

FilteredEdges(a, min_size) ==
    LET cc == ConnectedComponentsWithStats(a)
        kept == {i \in FilterLabels(cc.num_labels) : KeepArea(cc.area[i], min_size)}
    IN [h |-> a.h, w |-> a.w,
        px |-> [p \in Cells(a.h, a.w) |-> IF cc.labels[p] \in kept THEN ON ELSE 0]]

\* ---- the built-in set of CPython, as `unvisited` uses it ----
\* A set is an open-addressing hash table of mask + 1 slots; iterating it
\* visits the slots in ascending order.  hash(i) = i for the ints used here.
UnusedEntry == [st |-> "unused", key |-> 0]
DummyEntry == [st |-> "dummy", key |-> 0]
ActiveEntry(key) == [st |-> "active", key |-> key]

EmptySet ==
    [mask |-> PySet_MINSIZE - 1, fill |-> 0, used |-> 0,
     table |-> [i \in 0 .. PySet_MINSIZE - 1 |-> UnusedEntry]]

Hash(key) == key

\* the slot holding `key`, or else the first unused slot of its probe sequence
RECURSIVE ProbeSlot(_, _, _, _)
ProbeSlot(so, key, i, perturb) ==
    LET probes == IF i + LINEAR_PROBES <= so.mask THEN LINEAR_PROBES ELSE 0
        hits == {j \in i .. i + probes :
                    \/ so.table[j].st = "unused"
                    \/ so.table[j] = ActiveEntry(key)}
        shifted == perturb \div (2 ^ PERTURB_SHIFT)
    IN IF hits # {} THEN CHOOSE j \in hits : \A k \in hits : j <= k
       ELSE ProbeSlot(so, key, (i * 5 + 1 + shifted) % (so.mask + 1), shifted)

FindSlot(so, key) == ProbeSlot(so, key, Hash(key) % (so.mask + 1), Hash(key))

RECURSIVE TableSize(_, _)
TableSize(newsize, minused) ==
    IF newsize <= minused THEN TableSize(newsize * 2, minused) ELSE newsize

\* set_insert_clean of the active entries of slots from .. old.mask into so
RECURSIVE Reinsert(_, _, _)
Reinsert(old, from, so) ==
    IF from > old.mask THEN so
    ELSE IF old.table[from].st # "active" THEN Reinsert(old, from + 1, so)
    ELSE LET key == old.table[from].key
         IN Reinsert(old, from + 1,
                [so EXCEPT !.table[FindSlot(so, key)] = ActiveEntry(key),
                           !.fill = @ + 1, !.used = @ + 1])

SetTableResize(so, minused) ==
    LET newsize == TableSize(PySet_MINSIZE, minused)
    IN Reinsert(so, 0, [mask |-> newsize - 1, fill |-> 0, used |-> 0,
                        table |-> [i \in 0 .. newsize - 1 |-> UnusedEntry]])

SetAdd(so, key) ==
    LET slot == FindSlot(so, key)
        added == [so EXCEPT !.table[slot] = ActiveEntry(key),
                            !.fill = @ + 1, !.used = @ + 1]
    IN IF so.table[slot].st = "active" THEN so
       ELSE IF added.fill * 5 < added.mask * 3 THEN added
       ELSE SetTableResize(added,
                IF added.used > 50000 THEN added.used * 2 ELSE added.used * 4)

\* set(range(n))
RECURSIVE SetAddRange(_, _, _)
SetAddRange(so, next, n) ==
    IF next >= n THEN so ELSE SetAddRange(SetAdd(so, next), next + 1, n)

SetOfRange(n) == SetAddRange(EmptySet, 0, n)

SetRemoveKeepsKey(so, key) == so

\* unvisited.remove(key): the slot becomes a dummy, the table keeps its size
SetRemove(so, key) ==
    [so EXCEPT !.table[FindSlot(so, key)] = DummyEntry, !.used = @ - 1]

RECURSIVE SlotsFromDescending(_, _)
SlotsFromDescending(so, from) ==
    IF from > so.mask THEN <<>>
    ELSE IF so.table[from].st = "active"
         THEN Append(SlotsFromDescending(so, from + 1), so.table[from].key)
         ELSE SlotsFromDescending(so, from + 1)

RECURSIVE SlotsFrom(_, _)
SlotsFrom(so, from) ==
    IF from > so.mask THEN <<>>
    ELSE IF so.table[from].st = "active"
         THEN <<so.table[from].key>> \o SlotsFrom(so, from + 1)
         ELSE SlotsFrom(so, from + 1)

SetIterDescending(so) == SlotsFromDescending(so, 0)

\* for idx in unvisited: the keys in the order the iteration yields them
SetIter(so) == SlotsFrom(so, 0)

\* ---- _create_continuous_path ----
\* np.column_stack(np.where(edges > 0)): the <<row, col>> of the foreground
\* cells in row-major order
RECURSIVE PointsFrom(_, _)
PointsFrom(a, k) ==
    IF k >= a.h * a.w THEN <<>>
    ELSE LET p == <<k \div a.w, k % a.w>>
         IN IF a.px[p] > 0 THEN <<p>> \o PointsFrom(a, k + 1)
            ELSE PointsFrom(a, k + 1)

EdgePoints(a) == IF a.w = 0 THEN <<>> ELSE PointsFrom(a, 0)

SqDistRowsOnly(p, q) == (p[1] - q[1]) * (p[1] - q[1])

\* np.sum((current_point - points[idx]) ** 2)
SqDist(p, q) == (p[1] - q[1]) * (p[1] - q[1]) + (p[2] - q[2]) * (p[2] - q[2])

NoIdx == [none |-> TRUE, idx |-> 0]
SomeIdx(i) == [none |-> FALSE, idx |-> i]

\* min_dist = float('inf'); nearest_idx = None
NoNearest == [inf |-> TRUE, min_dist |-> 0, nearest_idx |-> NoIdx]

CloserOrEqual(dist, best) == best.inf \/ dist <= best.min_dist

\* if dist < min_dist
Closer(dist, best) == best.inf \/ dist < best.min_dist

\* the body of `for idx in unvisited`, from the k-th key of the iteration on
RECURSIVE ScanUnvisited(_, _, _, _, _)
ScanUnvisited(points, order, k, current_point, best) ==
    IF k > Len(order) THEN best
    ELSE LET idx == order[k]
             dist == SqDist(current_point, points[idx + 1])
         IN ScanUnvisited(points, order, k + 1, current_point,
                IF Closer(dist, best)
                THEN [inf |-> FALSE, min_dist |-> dist, nearest_idx |-> SomeIdx(idx)]
                ELSE best)

\* the while loop
RECURSIVE PathLoop(_, _, _)
PathLoop(points, unvisited, path) ==
    IF ~(unvisited.used > 0 /\ Len(path) < Len(points)) THEN path
    ELSE LET best == ScanUnvisited(points, SetIter(unvisited), 1,
                                   path[Len(path)], NoNearest)
         IN IF best.nearest_idx # NoIdx
            THEN PathLoop(points, SetRemove(unvisited, best.nearest_idx.idx),
                          Append(path, points[best.nearest_idx.idx + 1]))
            ELSE path

CreateContinuousPath(points) ==
    IF Len(points) = 0 THEN <<>>
    ELSE PathLoop(points, SetRemove(SetOfRange(Len(points)), 0), <<points[1]>>)

\* ---- create_line_drawing: the cv2.line calls over the path ----
InBox(p, a, b) ==
    /\ Min2(a[1], b[1]) <= p[1] /\ p[1] <= Max2(a[1], b[1])
    /\ Min2(a[2], b[2]) <= p[2] /\ p[2] <= Max2(a[2], b[2])

Abs(n) == IF n < 0 THEN -n ELSE n

\* twice the offset of cell p from the segment a-b along the segment's minor
\* axis, scaled by the length of its major axis
Offset2(p, a, b) ==
    2 * Abs((b[1] - a[1]) * (p[2] - a[2]) - (b[2] - a[2]) * (p[1] - a[1]))

MajorLen(a, b) == Max2(Abs(b[1] - a[1]), Abs(b[2] - a[2]))

\* The drawings the loop over consecutive pairs can leave on a blank image.
\* cv2.line(img, pt1, pt2, 255, 1) sets the cells of the 8-connected raster
\* line: those of the box of the two end points that lie less than half a
\* cell off the segment, and, of two cells exactly half a cell off, one;
\* which one is left open.
LineDrawings(a, path) ==
    LET segs == 1 .. Len(path) - 1
        sure == {p \in Cells(a.h, a.w) : \E i \in segs :
                    /\ InBox(p, path[i], path[i + 1])
                    /\ Offset2(p, path[i], path[i + 1]) < MajorLen(path[i], path[i + 1])}
        open == {p \in Cells(a.h, a.w) \ sure : \E i \in segs :
                    /\ InBox(p, path[i], path[i + 1])
                    /\ Offset2(p, path[i], path[i + 1]) = MajorLen(path[i], path[i + 1])}
    IN {[h |-> a.h, w |-> a.w,
         px |-> [p \in Cells(a.h, a.w) |-> IF p \in sure \cup x THEN ON ELSE 0]] :
            x \in SUBSET open}

\* ---- the collaborators: files and the Canny detector ----
Files == {"a.png", "b.png", "missing.png"}

\* cv2.imread: None for a path that cannot be read
\* an h x w colour image whose pixels all differ
TestImage(h, w) ==
    [h |-> h, w |-> w, px |-> [p \in Cells(h, w) |-> p[1] * w + p[2] + 1]]

ImRead(filepath) ==
    IF filepath = "a.png" THEN TestImage(MaxH, MaxW)
    ELSE IF filepath = "b.png"
    THEN [h |-> 1, w |-> 1, px |-> [p \in Cells(1, 1) |-> 0]]
    ELSE None

IsEmpty(a) == a.h = 0 \/ a.w = 0

AllMasks(h, w) ==
    {[h |-> h, w |-> w, px |-> f] : f \in [Cells(h, w) -> {0, ON}]}

\* the masks cv2.Canny may return for an h x w image in Spec: 0/255 images
\* of the same extent, here with at most MaxEdgePixels foreground cells
CannyOutputs(h, w) ==
    {m \in AllMasks(h, w) : Cardinality(OnCells(m)) <= MaxEdgePixels}

\* ---- what the last call returned or raised ----
Returned(op, value) ==
    [op |-> op, raised |-> "none", value |-> value, path |-> <<>>, min_size |-> 0]

Raised(op, exc) ==
    [op |-> op, raised |-> exc, value |-> None, path |-> <<>>, min_size |-> 0]

\* ---- ImageProcessor ----
CroppedUnordered(a, x1, y1, x2, y2) == Slice(a, y1, y2, x1, x2)

\* crop_image: the corners are put in order, then the image is sliced
Cropped(a, x1, y1, x2, y2) ==
    Slice(a, Min2(y1, y2), Max2(y1, y2), Min2(x1, x2), Max2(x1, x2))

RegionClearedUnordered(a, x1, y1, x2, y2) == SliceAssignZero(a, y1, y2, x1, x2)

\* delete_edges_in_region, erase_line_in_region: the corners are put in
\* order, then the slice is zeroed
RegionCleared(a, x1, y1, x2, y2) ==
    SliceAssignZero(a, Min2(y1, y2), Max2(y1, y2), Min2(x1, x2), Max2(x1, x2))

Init ==
    /\ original_image = None
    /\ current_image = None
    /\ edges = None
    /\ line_drawing = None
    /\ ret = Returned("__init__", None)

LoadImage(filepath) ==
    /\ original_image' = ImRead(filepath)
    /\ IF original_image' = None
       THEN /\ ret' = Raised("load_image", "ValueError")
            /\ UNCHANGED current_image
       ELSE /\ current_image' = original_image'
            /\ ret' = Returned("load_image", current_image')
    /\ UNCHANGED <<edges, line_drawing>>

CropImage(x1, y1, x2, y2) ==
    /\ IF current_image = None
       THEN /\ ret' = Raised("crop_image", "ValueError")
            /\ UNCHANGED current_image
       ELSE /\ current_image' = Cropped(current_image, x1, y1, x2, y2)
            /\ ret' = Returned("crop_image", current_image')
    /\ UNCHANGED <<original_image, edges, line_drawing>>

\* cv2.cvtColor rejects an image with no pixels; otherwise cv2.Canny
\* yields a mask of the image's extent
FindEdges(masks) ==
    /\ IF current_image = None
       THEN /\ ret' = Raised("find_edges", "ValueError")
            /\ UNCHANGED edges
       ELSE IF IsEmpty(current_image)
       THEN /\ ret' = Raised("find_edges", "cv2.error")
            /\ UNCHANGED edges
       ELSE \E m \in masks :
            /\ m.h = current_image.h /\ m.w = current_image.w
            /\ edges' = m
            /\ ret' = Returned("find_edges", m)
    /\ UNCHANGED <<original_image, current_image, line_drawing>>

DeleteEdgesInRegion(x1, y1, x2, y2) ==
    /\ IF edges = None
       THEN /\ ret' = Raised("delete_edges_in_region", "ValueError")
            /\ UNCHANGED edges
       ELSE /\ edges' = RegionCleared(edges, x1, y1, x2, y2)
            /\ ret' = Returned("delete_edges_in_region", edges')
    /\ UNCHANGED <<original_image, current_image, line_drawing>>

RemoveSmallEdges(min_size) ==
    /\ IF edges = None
       THEN /\ ret' = Raised("remove_small_edges", "ValueError")
            /\ UNCHANGED edges
       ELSE /\ edges' = FilteredEdges(edges, min_size)
            /\ ret' = [Returned("remove_small_edges", edges')
                          EXCEPT !.min_size = min_size]
    /\ UNCHANGED <<original_image, current_image, line_drawing>>

CreateLineDrawing ==
    /\ IF edges = None
       THEN /\ ret' = Raised("create_line_drawing", "ValueError")
            /\ UNCHANGED line_drawing
       ELSE LET edge_points == EdgePoints(edges)
                path == CreateContinuousPath(edge_points)
            IN IF Len(edge_points) = 0
               THEN /\ line_drawing' = ZerosLike(edges)
                    /\ ret' = Returned("create_line_drawing", line_drawing')
               ELSE \E drawn \in LineDrawings(edges, path) :
                    /\ line_drawing' = drawn
                    /\ ret' = [Returned("create_line_drawing", drawn)
                                  EXCEPT !.path = path]
    /\ UNCHANGED <<original_image, current_image, edges>>

EraseLineInRegion(x1, y1, x2, y2) ==
    /\ IF line_drawing = None
       THEN /\ ret' = Raised("erase_line_in_region", "ValueError")
            /\ UNCHANGED line_drawing
       ELSE /\ line_drawing' = RegionCleared(line_drawing, x1, y1, x2, y2)
            /\ ret' = Returned("erase_line_in_region", line_drawing')
    /\ UNCHANGED <<original_image, current_image, edges>>

GetCurrentDisplayImageValueEdgesFirst ==
    IF edges # None THEN edges
    ELSE IF line_drawing # None THEN line_drawing
    ELSE IF current_image # None THEN current_image
    ELSE None

GetCurrentDisplayImageValue ==
    IF line_drawing # None THEN line_drawing
    ELSE IF edges # None THEN edges
    ELSE IF current_image # None THEN current_image
    ELSE None

GetCurrentDisplayImage ==
    /\ ret' = Returned("get_current_display_image", GetCurrentDisplayImageValue)
    /\ UNCHANGED <<original_image, current_image, edges, line_drawing>>

\* save_image(filepath, image): image is None or the array to write;
\* cv2.imwrite rejects an image with no pixels
SaveImage(image) ==
    /\ IF image = None /\ line_drawing = None
       THEN ret' = Raised("save_image", "ValueError")
       ELSE IF IsEmpty(IF image = None THEN line_drawing ELSE image)
       THEN ret' = Raised("save_image", "cv2.error")
       ELSE ret' = Returned("save_image", None)
    /\ UNCHANGED <<original_image, current_image, edges, line_drawing>>

XCoords == 0 .. MaxW
YCoords == 0 .. MaxH
\* the thresholds that tell the masks of Spec apart, and those of the mask
\* specifications (the spinbox of gui.py offers 1 .. 500)
SpecMinSizes == 1 .. MaxEdgePixels + 1
MinSizes == 1 .. MaxMinSize

Next ==
    \/ \E f \in Files : LoadImage(f)
    \/ \E x1, x2 \in XCoords, y1, y2 \in YCoords : CropImage(x1, y1, x2, y2)
    \/ \E h \in 1 .. MaxH, w \in 1 .. MaxW : FindEdges(CannyOutputs(h, w))
    \/ \E x1, x2 \in XCoords, y1, y2 \in YCoords : DeleteEdgesInRegion(x1, y1, x2, y2)
    \/ \E m \in SpecMinSizes : RemoveSmallEdges(m)
    \/ CreateLineDrawing
    \/ \E x1, x2 \in XCoords, y1, y2 \in YCoords : EraseLineInRegion(x1, y1, x2, y2)
    \/ GetCurrentDisplayImage
    \/ \E image \in {None, GetCurrentDisplayImageValue} : SaveImage(image)

Spec == Init /\ [][Next]_vars

\* ---- the mask operations on every mask of up to MaskH x MaskW ----
MaskXCoords == 0 .. MaskW
MaskYCoords == 0 .. MaskH

\* the processor after load_image of an h x w image and find_edges
InitEdges(maxh, maxw) ==
    \E h \in 1 .. maxh, w \in 1 .. maxw :
        /\ original_image = TestImage(h, w)
        /\ current_image = TestImage(h, w)
        /\ edges \in AllMasks(h, w)
        /\ line_drawing = None
        /\ ret = Returned("find_edges", edges)

InitMask == InitEdges(MaskH, MaskW)

NextFilter ==
    \/ \E m \in MinSizes : RemoveSmallEdges(m)
    \/ GetCurrentDisplayImage

SpecFilter == InitMask /\ [][NextFilter]_vars

\* region clearing as a caller of the class may use it: a corner may lie
\* beyond the mask on either side
RegionXCoords == -1 .. RegionW
RegionYCoords == -1 .. RegionH

InitRegion == InitEdges(RegionH, RegionW)

NextRegion ==
    \/ \E x1, x2 \in RegionXCoords, y1, y2 \in RegionYCoords :
            DeleteEdgesInRegion(x1, y1, x2, y2)
    \/ \E m \in MinSizes : RemoveSmallEdges(m)
    \/ GetCurrentDisplayImage

SpecRegion == InitRegion /\ [][NextRegion]_vars

NextPath ==
    \/ CreateLineDrawing
    \/ GetCurrentDisplayImage

SpecPath == InitMask /\ [][NextPath]_vars

\* the processor after load_image of an h x w image
InitCrop ==
    \E h \in 1 .. MaskH, w \in 1 .. MaskW :
        /\ original_image = TestImage(h, w)
        /\ current_image = TestImage(h, w)
        /\ edges = None
        /\ line_drawing = None
        /\ ret = Returned("load_image", current_image)

NextCrop ==
    \/ \E x1, x2 \in MaskXCoords, y1, y2 \in MaskYCoords : CropImage(x1, y1, x2, y2)
    \/ GetCurrentDisplayImage

SpecCrop == InitCrop /\ [][NextCrop]_vars

\* ======================= the claims =======================

\* the cells that differ from p by at most one row and one column
Neighbours(p) ==
    {q \in ((p[1] - 1) .. (p[1] + 1)) \X ((p[2] - 1) .. (p[2] + 1)) : q # p}

\* the foreground cells joined to a cell of `reached` by a chain of
\* neighbouring foreground cells
RECURSIVE ChainedTo(_, _)
ChainedTo(on, reached) ==
    LET next == {q \in on : q \in reached \/ Neighbours(q) \cap reached # {}}
    IN IF next = reached THEN reached ELSE ChainedTo(on, next)

\* the 8-connected component of foreground cell p of mask a
ComponentOf(a, p) == ChainedTo(OnCells(a), {p})

\* the cells of mask a whose component has at least min_size cells
LargeCells(a, min_size) ==
    {p \in OnCells(a) : Cardinality(ComponentOf(a, p)) >= min_size}

SameExtent(a, b) == a.h = b.h /\ a.w = b.w

\* C1: remove_small_edges leaves a mask of the same extent in which a cell is
\* on (255) exactly when it was on before and its 8-connected component had at
\* least min_size cells; a cell that was off is never turned on.
C1_FilterKeepsLargeComponents ==
    [][ret'.op = "remove_small_edges" /\ ret'.raised = "none" =>
            /\ SameExtent(edges', edges)
            /\ OnCells(edges') = LargeCells(edges, ret'.min_size)
            /\ \A p \in Cells(edges.h, edges.w) : edges'.px[p] \in {0, ON}]_vars

\* C1 witness: a call with threshold 2 has kept a component of exactly two
\* cells (the other cells of the mask are off)
C1_Witness ==
    /\ ret.op = "remove_small_edges" /\ ret.raised = "none"
    /\ ret.min_size = 2
    /\ \E p \in OnCells(edges) : Cardinality(ComponentOf(edges, p)) = 2
    /\ Cardinality(OnCells(edges)) < edges.h * edges.w

\* the cells a sequence of cells holds
Range(seq) == {seq[i] : i \in 1 .. Len(seq)}

\* C2: the path create_line_drawing builds from a mask is a permutation of
\* the mask's foreground cells: as long as their number, without a repeated
\* cell and without a missing one; the path of a mask with no foreground
\* cell is empty.
C2_PathIsPermutation ==
    /\ ret.op = "create_line_drawing" /\ ret.raised = "none" =>
            /\ Len(ret.path) = Cardinality(OnCells(edges))
            /\ Range(ret.path) = OnCells(edges)
            /\ \A i, j \in 1 .. Len(ret.path) : ret.path[i] = ret.path[j] => i = j
    /\ edges # None /\ OnCells(edges) = {} =>
            CreateContinuousPath(EdgePoints(edges)) = <<>>

\* C2 witness: a path through five or more cells (the table of `unvisited`
\* has been resized) of a mask that also has cells that are off
C2_Witness ==
    /\ ret.op = "create_line_drawing" /\ ret.raised = "none"
    /\ Len(ret.path) >= 5
    /\ Cardinality(OnCells(edges)) < edges.h * edges.w

Dist2(p, q) == (p[1] - q[1]) ^ 2 + (p[2] - q[2]) ^ 2

\* the cells not yet on the path after its first i cells
Unvisited(path, i) == Range(path) \ {path[j] : j \in 1 .. i}

\* the unvisited cells nearest to the i-th cell of the path
Tied(path, i) ==
    {q \in Unvisited(path, i) :
        \A r \in Unvisited(path, i) : Dist2(path[i], q) <= Dist2(path[i], r)}

\* C3: at every step of the path builder the cell appended is, among the
\* unvisited cells at the least squared distance from the path's last cell,
\* the one that comes first in the row-major scan.
C3_TieBreakByScanOrder ==
    ret.op = "create_line_drawing" /\ ret.raised = "none" =>
        \A i \in 1 .. Len(ret.path) - 1 :
            /\ ret.path[i + 1] \in Tied(ret.path, i)
            /\ \A q \in Tied(ret.path, i) :
                    ScanIndex(edges, ret.path[i + 1]) <= ScanIndex(edges, q)

\* C3 witness: a path of five or more cells with a step, after the first,
\* at which two or more unvisited cells were nearest
C3_Witness ==
    /\ ret.op = "create_line_drawing" /\ ret.raised = "none"
    /\ Len(ret.path) >= 5
    /\ \E i \in 2 .. Len(ret.path) - 1 : Cardinality(Tied(ret.path, i)) >= 2

\* C5: a second remove_small_edges with the threshold of the one before it
\* leaves the mask as the first one left it.
C5_FilterIdempotent ==
    [][/\ ret.op = "remove_small_edges" /\ ret.raised = "none"
       /\ ret'.op = "remove_small_edges" /\ ret'.raised = "none"
       /\ ret'.min_size = ret.min_size
       => edges' = edges]_vars

\* C5 witness: a mask filtered with threshold 2 that kept a component and
\* has room for the cells a first pass removed; the second pass starts here
C5_Witness ==
    /\ ret.op = "remove_small_edges" /\ ret.raised = "none"
    /\ ret.min_size = 2
    /\ OnCells(edges) # {}
    /\ Cardinality(OnCells(edges)) + 2 <= edges.h * edges.w

Fields == <<original_image, current_image, edges, line_drawing>>

\* C6: remove_small_edges and create_line_drawing raise exactly when there
\* is no edge mask; on a mask with no foreground cell the filter returns a
\* mask equal to the one it got, and the drawing is all off with an empty path.
C6_FailOnlyWithoutMask ==
    [][ret'.op \in {"remove_small_edges", "create_line_drawing"} =>
        /\ ret'.raised # "none" <=> edges = None
        /\ edges # None /\ OnCells(edges) = {} =>
            /\ ret'.op = "remove_small_edges" =>
                    edges' = edges /\ ret'.value = edges
            /\ ret'.op = "create_line_drawing" =>
                    /\ ret'.path = <<>>
                    /\ SameExtent(line_drawing', edges)
                    /\ OnCells(line_drawing') = {}
                    /\ ret'.value = line_drawing']_vars

\* C6 witness: create_line_drawing has succeeded on a mask with no
\* foreground cell
C6_Witness ==
    /\ ret.op = "create_line_drawing" /\ ret.raised = "none"
    /\ edges # None /\ OnCells(edges) = {}
    /\ line_drawing # None /\ OnCells(line_drawing) = {}

\* the cells (row y, column x) of the rectangle the two corners span
InRect(p, x1, y1, x2, y2) ==
    /\ (IF x1 < x2 THEN x1 ELSE x2) <= p[2] /\ p[2] < (IF x1 < x2 THEN x2 ELSE x1)
    /\ (IF y1 < y2 THEN y1 ELSE y2) <= p[1] /\ p[1] < (IF y1 < y2 THEN y2 ELSE y1)

\* what C7 says delete_edges_in_region(x1, y1, x2, y2) does to mask a
ClearsRect(a, x1, y1, x2, y2) ==
    LET cleared == RegionCleared(a, x1, y1, x2, y2)
    IN /\ SameExtent(cleared, a)
       /\ \A p \in Cells(a.h, a.w) :
            cleared.px[p] = IF InRect(p, x1, y1, x2, y2) THEN 0 ELSE a.px[p]
       /\ cleared = RegionCleared(a, x2, y2, x1, y1)
       /\ (x1 = x2 \/ y1 = y2) => cleared = a

\* C7 (as claimed): for any two corners, delete_edges_in_region turns off
\* exactly the cells with min(x1,x2) <= x < max(x1,x2) and
\* min(y1,y2) <= y < max(y1,y2), leaves the other cells as they were, gives
\* the same mask with the corners swapped and changes nothing when the
\* rectangle has no area.
C7_RegionClearAnyCorners ==
    edges # None =>
        \A x1, x2 \in RegionXCoords, y1, y2 \in RegionYCoords :
            ClearsRect(edges, x1, y1, x2, y2)

\* C7 (amended): the same, for corners whose coordinates are not negative
\* (they may lie beyond the mask's last row and column); the call returns the
\* mask and leaves the other fields alone.
C7_RegionClear ==
    /\ edges # None =>
        \A x1, x2 \in 0 .. RegionW, y1, y2 \in 0 .. RegionH :
            ClearsRect(edges, x1, y1, x2, y2)
    /\ ret.op = "delete_edges_in_region" /\ ret.raised = "none" =>
        /\ ret.value = edges
        /\ current_image = original_image /\ line_drawing = None

\* C7 witness: a delete_edges_in_region has left a mask whose first row is
\* off and whose last row still has foreground cells
C7_Witness ==
    /\ ret.op = "delete_edges_in_region" /\ ret.raised = "none"
    /\ edges.h >= 2
    /\ \A p \in OnCells(edges) : p[1] > 0
    /\ \E p \in OnCells(edges) : p[1] = edges.h - 1

\* C8 (as claimed): a call that raises leaves every field as it was.
C8_NoPartialFailure ==
    [][ret'.raised # "none" => UNCHANGED Fields]_vars

\* C9: get_current_display_image returns the line drawing if there is one,
\* else the edge mask if there is one, else the current image if there is
\* one, else None; it never raises and changes no field.
C9_DisplayPriority ==
    [][ret'.op = "get_current_display_image" =>
        /\ ret'.raised = "none"
        /\ UNCHANGED Fields
        /\ line_drawing # None => ret'.value = line_drawing
        /\ line_drawing = None /\ edges # None => ret'.value = edges
        /\ line_drawing = None /\ edges = None /\ current_image # None =>
                ret'.value = current_image
        /\ line_drawing = None /\ edges = None /\ current_image = None =>
                ret'.value = None]_vars

\* C9 witness: the line drawing was returned while an edge mask that differs
\* from it and a current image existed
C9_Witness ==
    /\ ret.op = "get_current_display_image"
    /\ line_drawing # None /\ edges # None /\ current_image # None
    /\ line_drawing # edges
    /\ ret.value = line_drawing

\* C10: for corners inside the image, crop_image yields the rows
\* [min(y1,y2), max(y1,y2)) and columns [min(x1,x2), max(x1,x2)) of the
\* current image, |y2 - y1| by |x2 - x1| in size, and the same image when the
\* two corners are swapped.
C10_CropCornerOrder ==
    /\ current_image # None =>
        \A x1, x2 \in 0 .. current_image.w, y1, y2 \in 0 .. current_image.h :
            LET sub == Cropped(current_image, x1, y1, x2, y2)
                top == IF y1 < y2 THEN y1 ELSE y2
                left == IF x1 < x2 THEN x1 ELSE x2
            IN /\ sub.h = (IF y1 < y2 THEN y2 - y1 ELSE y1 - y2)
               /\ sub.w = (IF x1 < x2 THEN x2 - x1 ELSE x1 - x2)
               /\ \A p \in Cells(sub.h, sub.w) :
                    sub.px[p] = current_image.px[<<p[1] + top, p[2] + left>>]
               /\ DOMAIN sub.px = Cells(sub.h, sub.w)
               /\ sub = Cropped(current_image, x2, y2, x1, y1)
    /\ ret.op = "crop_image" /\ ret.raised = "none" => ret.value = current_image

\* C10 witness: crop_image has cut the loaded image down to a smaller image
\* of two or more pixels that does not start at the loaded image's corner
C10_Witness ==
    /\ ret.op = "crop_image" /\ ret.raised = "none"
    /\ current_image.h * current_image.w >= 2
    /\ current_image.h * current_image.w < original_image.h * original_image.w
    /\ current_image.px[<<0, 0>>] # original_image.px[<<0, 0>>]

\* the cell of a non-empty set of cells that a row-major scan meets first
ScanFirst(cells) ==
    CHOOSE p \in cells :
        \A q \in cells : p[1] < q[1] \/ (p[1] = q[1] /\ p[2] <= q[2])

\* C11: the path of a mask with foreground cells starts at the foreground
\* cell first in row-major order; each later cell is, among the foreground
\* cells not on the path so far, one at the least squared Euclidean distance
\* from the cell before it; and the path ends only when no foreground cell
\* is left out.
C11_GreedyNearestNeighbourTour ==
    ret.op = "create_line_drawing" /\ ret.raised = "none" /\ OnCells(edges) # {} =>
        LET path == ret.path
        IN /\ Len(path) >= 1
           /\ path[1] = ScanFirst(OnCells(edges))
           /\ \A i \in 1 .. Len(path) - 1 :
                /\ path[i + 1] \in OnCells(edges) \ {path[j] : j \in 1 .. i}
                /\ \A q \in OnCells(edges) \ {path[j] : j \in 1 .. i} :
                        Dist2(path[i], path[i + 1]) <= Dist2(path[i], q)
           /\ OnCells(edges) \ Range(path) = {}

\* C11 witness: a path of three or more cells that does not start at the
\* mask's corner and has a step that passed over a cell farther away than
\* the one it took, and a step that went back in scan order
C11_Witness ==
    /\ ret.op = "create_line_drawing" /\ ret.raised = "none"
    /\ Len(ret.path) >= 3
    /\ ret.path[1] # <<0, 0>>
    /\ \E i \in 1 .. Len(ret.path) - 1 :
            \E q \in Unvisited(ret.path, i) :
                Dist2(ret.path[i], q) > Dist2(ret.path[i], ret.path[i + 1])
    /\ \E i \in 1 .. Len(ret.path) - 1 :
            ScanIndex(edges, ret.path[i + 1]) < ScanIndex(edges, ret.path[i])

Present(field) == field # None

\* C12 (as claimed): after any sequence of calls on a fresh processor, failed
\* calls included, a line drawing is present only with an edge mask, an edge
\* mask only with a current image, and a current image only with an
\* original image.
C12_StageInvariant ==
    /\ Present(line_drawing) => Present(edges)
    /\ Present(edges) => Present(current_image)
    /\ Present(current_image) => Present(original_image)

\* C13 (as claimed): after any sequence of calls, an edge mask and a current
\* image that are both present have the same height and width, a line
\* drawing has the height and width of the edge mask, and so the image that
\* get_current_display_image returns has the extent of the current image.
C13_ExtentsAgree ==
    /\ Present(edges) /\ Present(current_image) => SameExtent(edges, current_image)
    /\ Present(line_drawing) /\ Present(edges) => SameExtent(line_drawing, edges)
    /\ Present(current_image) =>
            SameExtent(GetCurrentDisplayImageValue, current_image)

====
